---- MODULE Spec2Model ----
(***************************************************************************)
(* ICMP echo codec and echo exchange loops of src/pkg/net/ipraw_test.go.   *)
(*                                                                         *)
(* Two specifications share the module:                                    *)
(*   Spec      the pure codec: icmpMessage.Marshal, icmpEcho.Marshal,      *)
(*             parseICMPMessage and parseICMPEcho applied to inputs drawn   *)
(*             from bounded sets;                                          *)
(*   EchoSpec  the request/reply loops of TestConnICMPEcho and             *)
(*             TestPacketConnICMPEcho driven by a nondeterministic         *)
(*             transport.                                                  *)
(* Byte slices are sequences of 0..255; Go's index i is index i+1 here.    *)
(* A nil slice and an empty slice are both the empty sequence.             *)
(***************************************************************************)
EXTENDS Integers, Sequences, FiniteSets, TLC

VARIABLES
    cpc,        \* codec: "marshal" | "parse" | "done" | "again"
    msg,        \* codec: the message handed to Marshal (NoMessage for a raw input)
    wire,       \* codec: the bytes Marshal returned / the bytes handed to the parser
    parsed,     \* codec: the result of parseICMPMessage(wire)
    wire2,      \* codec: the bytes a second Marshal of the same message returned
    pc,         \* exchange: position in the test body
    conn,       \* exchange: "Conn" (TestConnICMPEcho) | "PacketConn"
    netw,       \* exchange: "ip4" | "ip6"
    xid,        \* exchange: identifier sent
    xseq,       \* exchange: sequence number sent
    wb,         \* exchange: the marshalled request
    rb,         \* exchange: the read buffer
    m,          \* exchange: result of the last parseICMPMessage(rb)
    reads,      \* exchange: number of transport reads performed
    decodes,    \* exchange: number of parseICMPMessage calls performed
    delivered,  \* exchange: what the transport delivered, read by read
    outcome,    \* exchange: how the test body ended
    walker,     \* gofmt: position of walkDir's own goroutine
    handler,    \* gofmt: position of the error handler goroutine
    entries,    \* gofmt: the files pathutil.Walk visits, in order
    visited,    \* gofmt: number of entries visited so far
    pending,    \* gofmt: the value the walker is about to send on v
    received,   \* gofmt: the value the handler last received from v
    closed,     \* gofmt: v has been closed
    sent,       \* gofmt: the non-nil errors sent on v, in order
    reported,   \* gofmt: the arguments of the calls of report, in order
    exitCode,   \* gofmt: the package variable exitCode
    tester,     \* tcp: position of DoTest's goroutine (DoTest and Connect)
    server,     \* tcp: position of Serve's goroutine
    echo,       \* tcp: position of Echo's goroutine
    listener,   \* tcp: "none" | "open" | "closed"
    tconn,      \* tcp: the client's connection: "none" | "pending" | "accepted"
    clientClosed, \* tcp: the client has called fd.Close()
    reset,      \* tcp: the connection has failed under Echo
    c2s,        \* tcp: bytes in flight from the client to the server
    s2c,        \* tcp: bytes in flight from the server to the client
    buf,        \* tcp: buf[0:n] of Echo's last Read
    echoIn,     \* tcp: every byte Echo has read, in order
    echoOut,    \* tcp: every byte Echo has written, in order
    lastRead,   \* tcp: how Echo's last Read ended: "none" | "data" | "zero" | "err"
    accepted,   \* tcp: number of connections Accept has returned
    acceptFailed \* tcp: Accept has returned an error

vars == <<cpc, msg, wire, parsed, wire2, pc, conn, netw, xid, xseq, wb, rb, m,
          reads, decodes, delivered, outcome, walker, handler, entries, visited,
          pending, received, closed, sent, reported, exitCode, tester, server, echo,
          listener, tconn, clientClosed, reset, c2s, s2c, buf, echoIn, echoOut,
          lastRead, accepted, acceptFailed>>

codecVars == <<cpc, msg, wire, parsed, wire2>>
echoVars == <<pc, conn, netw, xid, xseq, wb, rb, m, reads, decodes, delivered, outcome>>
walkVars == <<walker, handler, entries, visited, pending, received, closed, sent,
              reported, exitCode>>
tcpVars == <<tester, server, echo, listener, tconn, clientClosed, reset, c2s, s2c, buf,
             echoIn, echoOut, lastRead, accepted, acceptFailed>>

(***************************************************************************)
(* Bounds of the model.                                                    *)
(***************************************************************************)
MaxData == 2
MaxRaw == 9
MaxReads == 5
MaxFiles == 3

(***************************************************************************)
(* Program constants.                                                      *)
(***************************************************************************)
icmpv4EchoRequest == 8
icmpv4EchoReply == 0
icmpv6EchoRequest == 128
icmpv6EchoReply == 129

(***************************************************************************)
(* Fixed-width arithmetic.  The checksum accumulator is a uint32; it wraps  *)
(* only for messages of more than 65536 words, far beyond the lengths      *)
(* reached here, so its sums are written without the reduction mod 2^32.   *)
(***************************************************************************)
Pow2(n) == 2 ^ n

ToByte(x) == x % 256

RECURSIVE BitXor(_, _)
BitXor(a, b) ==
    IF a = 0 THEN b
    ELSE IF b = 0 THEN a
    ELSE (((a % 2) + (b % 2)) % 2) + 2 * BitXor(a \div 2, b \div 2)

RECURSIVE BitAnd(_, _)
BitAnd(a, b) ==
    IF a = 0 \/ b = 0 THEN 0
    ELSE ((a % 2) * (b % 2)) + 2 * BitAnd(a \div 2, b \div 2)

\* byte(^s >> sh) for a uint32 s: complementing flips every bit, so the byte
\* is the complement of the byte of s at that place.
NotByte(s, sh) == 255 - ((s \div Pow2(sh)) % 256)

(***************************************************************************)
(* Messages.  Body.kind is "nil" (nil interface), "nilecho" (a nil         *)
(* *icmpEcho stored in the interface) or "echo".                           *)
(***************************************************************************)
NilBody == [kind |-> "nil", ID |-> 0, Seq |-> 0, Data |-> <<>>]

NilEcho == [kind |-> "nilecho", ID |-> 0, Seq |-> 0, Data |-> <<>>]

Echo(id, seq, data) == [kind |-> "echo", ID |-> id, Seq |-> seq, Data |-> data]

Message(t, c, ck, body) == [Type |-> t, Code |-> c, Checksum |-> ck, Body |-> body]

NoMessage == Message(-1, -1, -1, NilBody)

\* func (p *icmpEcho) Len() int
EchoLen(p) == IF p.kind = "nilecho" THEN 0 ELSE 4 + Len(p.Data)

\* Mutant of EchoMarshal: identifier bytes stored low byte first.
EchoMarshalLowFirst(p) ==
    <<ToByte(p.ID), ToByte(p.ID \div 256), ToByte(p.Seq \div 256), ToByte(p.Seq)>>
        \o p.Data

\* func (p *icmpEcho) Marshal() ([]byte, error)
EchoMarshal(p) ==
    <<ToByte(p.ID \div 256), ToByte(p.ID), ToByte(p.Seq \div 256), ToByte(p.Seq)>>
        \o p.Data

\* The summing loop of icmpMessage.Marshal: for i := 0; i < csumcv; i += 2
RECURSIVE SumWords(_, _, _, _)
SumWords(b, i, csumcv, s) ==
    IF i < csumcv
    THEN SumWords(b, i + 2, csumcv, s + b[i + 2] * 256 + b[i + 1])
    ELSE s

\* Mutant of PlaceChecksum: the odd trailing byte is left out of the sum.
PlaceChecksumNoOddByte(b) ==
    LET csumcv == Len(b) - 1
        s1 == SumWords(b, 0, csumcv, 0)
        s2 == (s1 \div Pow2(16)) + BitAnd(s1, 65535)
        s3 == s2 + (s2 \div Pow2(16))
    IN  [b EXCEPT ![3] = BitXor(b[3], NotByte(s3, 0)),
                  ![4] = BitXor(b[4], NotByte(s3, 8))]

\* Mutant of PlaceChecksum: the two checksum bytes are stored the other way round.
PlaceChecksumSwapped(b) ==
    LET csumcv == Len(b) - 1
        s0 == SumWords(b, 0, csumcv, 0)
        s1 == IF csumcv % 2 = 0 THEN s0 + b[csumcv + 1] ELSE s0
        s2 == (s1 \div Pow2(16)) + BitAnd(s1, 65535)
        s3 == s2 + (s2 \div Pow2(16))
    IN  [b EXCEPT ![3] = BitXor(b[3], NotByte(s3, 8)),
                  ![4] = BitXor(b[4], NotByte(s3, 0))]

\* The checksum computation of icmpMessage.Marshal, from csumcv to the two ^=.
PlaceChecksum(b) ==
    LET csumcv == Len(b) - 1
        s0 == SumWords(b, 0, csumcv, 0)
        s1 == IF csumcv % 2 = 0 THEN s0 + b[csumcv + 1] ELSE s0
        s2 == (s1 \div Pow2(16)) + BitAnd(s1, 65535)
        s3 == s2 + (s2 \div Pow2(16))
    IN  [b EXCEPT ![3] = BitXor(b[3], NotByte(s3, 0)),
                  ![4] = BitXor(b[4], NotByte(s3, 8))]

\* Mutant of Marshal: the checksum is computed for every type.
MarshalAlwaysChecksum(mm) ==
    LET hdr == <<ToByte(mm.Type), ToByte(mm.Code), 0, 0>>
        b == IF mm.Body.kind # "nil" /\ EchoLen(mm.Body) # 0
             THEN hdr \o EchoMarshal(mm.Body)
             ELSE hdr
    IN  PlaceChecksum(b)

\* Mutant of Marshal: the header starts from the message's Checksum field.
MarshalSeeded(mm) ==
    LET hdr == <<ToByte(mm.Type), ToByte(mm.Code),
                 ToByte(mm.Checksum \div 256), ToByte(mm.Checksum)>>
        b == IF mm.Body.kind # "nil" /\ EchoLen(mm.Body) # 0
             THEN hdr \o EchoMarshal(mm.Body)
             ELSE hdr
    IN  IF mm.Type \in {icmpv6EchoRequest, icmpv6EchoReply}
        THEN b
        ELSE PlaceChecksum(b)

\* func (m *icmpMessage) Marshal() ([]byte, error); icmpEcho.Marshal never fails.
Marshal(mm) ==
    LET hdr == <<ToByte(mm.Type), ToByte(mm.Code), 0, 0>>
        b == IF mm.Body.kind # "nil" /\ EchoLen(mm.Body) # 0
             THEN hdr \o EchoMarshal(mm.Body)
             ELSE hdr
    IN  IF mm.Type \in {icmpv6EchoRequest, icmpv6EchoReply}
        THEN b
        ELSE PlaceChecksum(b)

(***************************************************************************)
(* Parsing.  A result is [err, m]; err is "" on success, the error string  *)
(* parseICMPMessage returns, or "panic" when an index expression is out of *)
(* range (a Go run-time panic).                                            *)
(***************************************************************************)
ErrTooShort == "message too short"

ErrPanic == "panic: index out of range"

Result(e, mm) == [err |-> e, m |-> mm]

\* b[lo:] of a Go slice, lo counted from 0
SliceFrom(b, lo) == SubSeq(b, lo + 1, Len(b))

\* Mutant of parseICMPEcho: the payload is taken from b[5:] instead of b[4:].
parseICMPEchoSkipsByte(b) ==
    LET bodylen == Len(b)
    IN  IF bodylen < 4
        THEN [err |-> ErrPanic, p |-> NilBody]
        ELSE [err |-> "",
              p |-> Echo(b[1] * 256 + b[2], b[3] * 256 + b[4],
                         IF bodylen > 4 THEN SliceFrom(b, 5) ELSE <<>>)]

\* func parseICMPEcho(b []byte) (*icmpEcho, error)
parseICMPEcho(b) ==
    LET bodylen == Len(b)
    IN  IF bodylen < 4
        THEN [err |-> ErrPanic, p |-> NilBody]
        ELSE [err |-> "",
              p |-> Echo(b[1] * 256 + b[2], b[3] * 256 + b[4],
                         IF bodylen > 4 THEN SliceFrom(b, 4) ELSE <<>>)]

\* The Internet checksum as RFC 1071 states it: the 16-bit big-endian words of b,
\* an odd final byte padded with a zero byte, added with end-around carry.
RECURSIVE BigEndianSum(_)
BigEndianSum(b) ==
    IF Len(b) = 0 THEN 0
    ELSE IF Len(b) = 1 THEN b[1] * 256
    ELSE b[1] * 256 + b[2] + BigEndianSum(SubSeq(b, 3, Len(b)))

RECURSIVE EndAroundFold(_)
EndAroundFold(x) ==
    IF x < 65536 THEN x ELSE EndAroundFold((x % 65536) + (x \div 65536))

OnesComplementSum(b) == EndAroundFold(BigEndianSum(b))

\* Mutant of parseICMPMessage: a message whose checksum does not verify is refused.
parseICMPMessageValidating(b) ==
    LET msglen == Len(b)
    IN  IF msglen < 4
        THEN Result(ErrTooShort, NoMessage)
        ELSE IF OnesComplementSum(b) # 65535
        THEN Result("bad checksum", NoMessage)
        ELSE LET hd == Message(b[1], b[2], b[3] * 256 + b[4], NilBody)
             IN  IF msglen > 4 /\ hd.Type \in {icmpv4EchoRequest, icmpv4EchoReply,
                                               icmpv6EchoRequest, icmpv6EchoReply}
                 THEN LET e == parseICMPEcho(SliceFrom(b, 4))
                      IN  IF e.err # ""
                          THEN Result(e.err, NoMessage)
                          ELSE Result("", [hd EXCEPT !.Body = e.p])
                 ELSE Result("", hd)

EchoTypes == {icmpv4EchoRequest, icmpv4EchoReply, icmpv6EchoRequest, icmpv6EchoReply}

\* Mutant of parseICMPMessage: the length test is off by one (msglen <= 4).
parseICMPMessageOffByOne(b) ==
    LET msglen == Len(b)
    IN  IF msglen <= 4
        THEN Result(ErrTooShort, NoMessage)
        ELSE LET hd == Message(b[1], b[2], b[3] * 256 + b[4], NilBody)
             IN  IF msglen > 4 /\ hd.Type \in EchoTypes
                 THEN LET e == parseICMPEcho(SliceFrom(b, 4))
                      IN  IF e.err # ""
                          THEN Result(e.err, NoMessage)
                          ELSE Result("", [hd EXCEPT !.Body = e.p])
                 ELSE Result("", hd)

\* Mutant of parseICMPMessage: the body is parsed whatever the type is.
parseICMPMessageAnyType(b) ==
    LET msglen == Len(b)
    IN  IF msglen < 4
        THEN Result(ErrTooShort, NoMessage)
        ELSE LET hd == Message(b[1], b[2], b[3] * 256 + b[4], NilBody)
             IN  IF msglen > 4
                 THEN LET e == parseICMPEcho(SliceFrom(b, 4))
                      IN  IF e.err # ""
                          THEN Result(e.err, NoMessage)
                          ELSE Result("", [hd EXCEPT !.Body = e.p])
                 ELSE Result("", hd)

\* func parseICMPMessage(b []byte) (*icmpMessage, error)
parseICMPMessage(b) ==
    LET msglen == Len(b)
    IN  IF msglen < 4
        THEN Result(ErrTooShort, NoMessage)
        ELSE LET hd == Message(b[1], b[2], b[3] * 256 + b[4], NilBody)
             IN  IF msglen > 4 /\ hd.Type \in EchoTypes
                 THEN LET e == parseICMPEcho(SliceFrom(b, 4))
                      IN  IF e.err # ""
                          THEN Result(e.err, NoMessage)
                          ELSE Result("", [hd EXCEPT !.Body = e.p])
                 ELSE Result("", hd)

NoResult == Result("none", NoMessage)

(***************************************************************************)
(* Inputs of the codec specification.                                      *)
(***************************************************************************)
RECURSIVE SeqsUpTo(_, _)
SeqsUpTo(S, n) ==
    IF n = 0 THEN {<<>>}
    ELSE LET shorter == SeqsUpTo(S, n - 1)
         IN  shorter \cup {Append(s, x) : s \in {t \in shorter : Len(t) = n - 1}, x \in S}

TypeVals == {icmpv4EchoRequest, icmpv4EchoReply, icmpv6EchoRequest, icmpv6EchoReply, 3, 255}

CodeVals == {0, 255}

IDVals == {0, 4660, 65535, 70196}

SeqVals == {0, 1, 65535}

ChecksumVals == {0, 48879}

DataBytes == {0, 170, 255}

RawBytes == {0, 170, 187}

Bodies ==
    {NilBody, NilEcho}
        \cup {Echo(i, s, d) : i \in IDVals, s \in SeqVals, d \in SeqsUpTo(DataBytes, MaxData)}

Messages == {Message(t, c, ck, b) : t \in TypeVals, c \in CodeVals, ck \in ChecksumVals, b \in Bodies}

RawInputs ==
    {<<>>} \cup {<<t>> \o r : t \in TypeVals, r \in SeqsUpTo(RawBytes, MaxRaw - 1)}

(***************************************************************************)
(* The exchange's variables while only the codec runs.                     *)
(***************************************************************************)
EchoIdle ==
    /\ pc = "Idle"
    /\ conn = "Conn"
    /\ netw = "ip4"
    /\ xid = 0
    /\ xseq = 0
    /\ wb = <<>>
    /\ rb = <<>>
    /\ m = NoResult
    /\ reads = 0
    /\ decodes = 0
    /\ delivered = <<>>
    /\ outcome = "none"

(***************************************************************************)
(* gofmt's variables while walkDir is not running.                         *)
(***************************************************************************)
\* The nil os.Error; the error of the i-th entry is the number i.
Nil == 0

WalkIdle ==
    /\ walker = "idle"
    /\ handler = "idle"
    /\ entries = <<>>
    /\ visited = 0
    /\ pending = Nil
    /\ received = Nil
    /\ closed = FALSE
    /\ sent = <<>>
    /\ reported = <<>>
    /\ exitCode = 0

(***************************************************************************)
(* The TCP server test's variables while DoTest is not running.            *)
(***************************************************************************)
TcpIdle ==
    /\ tester = "idle"
    /\ server = "idle"
    /\ echo = "none"
    /\ listener = "none"
    /\ tconn = "none"
    /\ clientClosed = FALSE
    /\ reset = FALSE
    /\ c2s = <<>>
    /\ s2c = <<>>
    /\ buf = <<>>
    /\ echoIn = <<>>
    /\ echoOut = <<>>
    /\ lastRead = "none"
    /\ accepted = 0
    /\ acceptFailed = FALSE

(***************************************************************************)
(* Codec specification: Marshal then parse a message, or parse raw bytes.  *)
(***************************************************************************)
Init ==
    /\ \/ /\ cpc = "marshal"
          /\ msg \in Messages
          /\ wire = <<>>
       \/ /\ cpc = "parse"
          /\ msg = NoMessage
          /\ wire \in RawInputs
    /\ parsed = NoResult
    /\ wire2 = <<>>
    /\ EchoIdle
    /\ WalkIdle
    /\ TcpIdle

\* Mutant of DoMarshal: Marshal stores the checksum it computed in the message.
DoMarshalStoresChecksum ==
    /\ cpc = "marshal"
    /\ wire' = Marshal(msg)
    /\ msg' = [msg EXCEPT !.Checksum = wire'[3] * 256 + wire'[4]]
    /\ cpc' = "parse"
    /\ UNCHANGED <<parsed, wire2>>
    /\ UNCHANGED echoVars
    /\ UNCHANGED walkVars
    /\ UNCHANGED tcpVars

\* wb, err := m.Marshal(): the receiver m is only read.
DoMarshal ==
    /\ cpc = "marshal"
    /\ wire' = Marshal(msg)
    /\ cpc' = "parse"
    /\ UNCHANGED <<msg, parsed, wire2>>
    /\ UNCHANGED echoVars
    /\ UNCHANGED walkVars
    /\ UNCHANGED tcpVars

\* A second m.Marshal() on the message just marshalled.
DoMarshalAgain ==
    /\ cpc = "parse"
    /\ msg # NoMessage
    /\ wire2' = Marshal(msg)
    /\ cpc' = "again"
    /\ UNCHANGED <<msg, wire, parsed>>
    /\ UNCHANGED echoVars
    /\ UNCHANGED walkVars
    /\ UNCHANGED tcpVars

\* m, err = parseICMPMessage(b)
DoParse ==
    /\ cpc = "parse"
    /\ parsed' = parseICMPMessage(wire)
    /\ cpc' = "done"
    /\ UNCHANGED <<msg, wire, wire2>>
    /\ UNCHANGED echoVars
    /\ UNCHANGED walkVars
    /\ UNCHANGED tcpVars

Next ==
    \/ DoMarshal
    \/ DoMarshalAgain
    \/ DoParse

Spec == Init /\ [][Next]_vars

(***************************************************************************)
(* The echo exchange of TestConnICMPEcho and TestPacketConnICMPEcho.       *)
(***************************************************************************)
CodecIdle ==
    /\ cpc = "idle"
    /\ msg = NoMessage
    /\ wire = <<>>
    /\ parsed = NoResult
    /\ wire2 = <<>>

\* func ipv4Payload(b []byte) []byte; b[hdrlen:] panics when hdrlen > len(b).
ipv4Payload(b) ==
    IF Len(b) < 20
    THEN [err |-> "", b |-> b]
    ELSE LET hdrlen == BitAnd(b[1], 15) * 4
         IN  IF hdrlen > Len(b)
             THEN [err |-> ErrPanic, b |-> b]
             ELSE [err |-> "", b |-> SliceFrom(b, hdrlen)]

\* "Go Go Gadget Ping!!!"
GoGoGadgetPing ==
    <<71, 111, 32, 71, 111, 32, 71, 97, 100, 103, 101, 116, 32, 80, 105, 110, 103, 33, 33, 33>>

\* bytes.Repeat([]byte("Go Go Gadget Ping!!!"), 3)
PingData == GoGoGadgetPing \o GoGoGadgetPing \o GoGoGadgetPing

\* typ := icmpv4EchoRequest; if net == "ip6" { typ = icmpv6EchoRequest }
RequestType(n) == IF n = "ip6" THEN icmpv6EchoRequest ELSE icmpv4EchoRequest

ReplyType(n) == IF n = "ip6" THEN icmpv6EchoReply ELSE icmpv4EchoReply

\* (&icmpMessage{Type: typ, Code: 0, Body: &icmpEcho{ID: xid, Seq: xseq, Data: ...}})
RequestMessage(n, id, seq) == Message(RequestType(n), 0, 0, Echo(id, seq, PingData))

\* rb := make([]byte, 20+len(wb))
MakeBuffer(n) == [i \in 1..n |-> 0]

\* xid is os.Getpid()&0xffff; xseq is i+1, i the index of the network in icmpEchoTests.
XidVals == {1, 4660}

SeqOf(n) == IF n = "ip6" THEN 2 ELSE 1

(***************************************************************************)
(* The transport.  A read delivers one packet into the buffer, cut to the  *)
(* buffer's length, or fails.  On a Conn over ip4 a packet carries its     *)
(* IPv4 header; IHL is the header length in 32-bit words.  On ip6 the      *)
(* checksum bytes are the kernel's.                                        *)
(***************************************************************************)
IHLs == {5, 7, 15}

KernelChecksums == {<<0, 0>>, <<171, 205>>}

ReadErrors == {"Timeout", "Closed"}

PacketKinds == {"req", "rep", "otherreq", "otherrep", "unreach"}

OtherID(id) == (id + 1) % 65536

IPv4Header(ihl, paylen) ==
    LET total == ihl * 4 + paylen
    IN  <<64 + ihl, 0, total \div 256, total % 256, 0, 0, 0, 0, 64, 1, 0, 0,
          127, 0, 0, 1, 127, 0, 0, 1>>
            \o [i \in 1..((ihl - 5) * 4) |-> 1]

\* The ICMP message of a delivered packet.
ICMPOf(d, n, id, seq) ==
    LET body == CASE d.kind = "req" -> Marshal(RequestMessage(n, id, seq))
                  [] d.kind = "rep" ->
                        Marshal(Message(ReplyType(n), 0, 0, Echo(id, seq, PingData)))
                  [] d.kind = "otherreq" ->
                        Marshal(Message(RequestType(n), 0, 0, Echo(OtherID(id), seq, <<>>)))
                  [] d.kind = "otherrep" ->
                        Marshal(Message(ReplyType(n), 0, 0, Echo(OtherID(id), seq, PingData)))
                  [] OTHER ->
                        Marshal(Message(IF n = "ip6" THEN 1 ELSE 3, 1, 0,
                                        Echo(0, 0, <<69, 0, 0, 28>>)))
    IN  IF n = "ip6" THEN [body EXCEPT ![3] = d.ck[1], ![4] = d.ck[2]] ELSE body

HasIPHeader(c, n) == c = "Conn" /\ n = "ip4"

\* The bytes a read delivers.
PacketBytes(d, c, n, id, seq) ==
    LET icmp == ICMPOf(d, n, id, seq)
    IN  IF HasIPHeader(c, n) THEN IPv4Header(d.ihl, Len(icmp)) \o icmp ELSE icmp

Deliverable(c, n) ==
    {[kind |-> k, ihl |-> h, ck |-> ck] :
        k \in PacketKinds,
        h \in IF HasIPHeader(c, n) THEN IHLs ELSE {0},
        ck \in IF n = "ip6" THEN KernelChecksums ELSE {<<>>}}

ReadFailure(e) == [kind |-> e, ihl |-> 0, ck |-> <<>>]

\* Read(b): the packet is copied over the start of b, cut to len(b).
CopyInto(b, p) ==
    [i \in 1..Len(b) |-> IF i <= Len(p) THEN p[i] ELSE b[i]]

EchoInit ==
    /\ CodecIdle
    /\ WalkIdle
    /\ TcpIdle
    /\ pc = "Idle"
    /\ conn \in {"Conn", "PacketConn"}
    /\ netw \in {"ip4", "ip6"}
    /\ xid \in XidVals
    /\ xseq = SeqOf(netw)
    /\ wb = <<>>
    /\ rb = <<>>
    /\ m = NoResult
    /\ reads = 0
    /\ decodes = 0
    /\ delivered = <<>>
    /\ outcome = "none"

\* Marshal, Write succeeds, rb := make([]byte, 20+len(wb))
SendRequest ==
    /\ pc = "Idle"
    /\ wb' = Marshal(RequestMessage(netw, xid, xseq))
    /\ rb' = MakeBuffer(20 + Len(wb'))
    /\ pc' = "Read"
    /\ UNCHANGED <<conn, netw, xid, xseq, m, reads, decodes, delivered, outcome>>
    /\ UNCHANGED codecVars
    /\ UNCHANGED walkVars
    /\ UNCHANGED tcpVars

\* Marshal, Write fails: t.Fatalf("Conn.Write failed")
SendFails ==
    /\ pc = "Idle"
    /\ wb' = Marshal(RequestMessage(netw, xid, xseq))
    /\ outcome' = "WriteError"
    /\ pc' = "Done"
    /\ UNCHANGED <<conn, netw, xid, xseq, rb, m, reads, decodes, delivered>>
    /\ UNCHANGED codecVars
    /\ UNCHANGED walkVars
    /\ UNCHANGED tcpVars

\* c.Read(rb) / c.ReadFrom(rb) returns a packet
ReadPacket ==
    /\ pc = "Read"
    /\ reads < MaxReads
    /\ \E d \in Deliverable(conn, netw) :
          /\ rb' = CopyInto(rb, PacketBytes(d, conn, netw, xid, xseq))
          /\ delivered' = Append(delivered, d)
    /\ reads' = reads + 1
    /\ pc' = "Decode"
    /\ UNCHANGED <<conn, netw, xid, xseq, wb, m, decodes, outcome>>
    /\ UNCHANGED codecVars
    /\ UNCHANGED walkVars
    /\ UNCHANGED tcpVars

\* Mutant of ReadFails: the failed read is retried.
ReadFailsRetried ==
    /\ pc = "Read"
    /\ reads <= MaxReads
    /\ \E e \in ReadErrors :
          delivered' = Append(delivered, ReadFailure(e))
    /\ reads' = reads + 1
    /\ UNCHANGED <<pc, outcome>>
    /\ UNCHANGED <<conn, netw, xid, xseq, wb, rb, m, decodes>>
    /\ UNCHANGED codecVars
    /\ UNCHANGED walkVars
    /\ UNCHANGED tcpVars

\* c.Read(rb) / c.ReadFrom(rb) fails: t.Fatalf("Conn.Read failed")
ReadFails ==
    /\ pc = "Read"
    /\ \E e \in ReadErrors :
          /\ delivered' = Append(delivered, ReadFailure(e))
          /\ outcome' = e
    /\ reads' = reads + 1
    /\ pc' = "Done"
    /\ UNCHANGED <<conn, netw, xid, xseq, wb, rb, m, decodes>>
    /\ UNCHANGED codecVars
    /\ UNCHANGED walkVars
    /\ UNCHANGED tcpVars

\* Mutant of Decode: a packet that fails to parse is skipped and the loop reads on.
DecodeSkipsErrors ==
    /\ pc = "Decode"
    /\ LET strip == IF conn = "Conn" /\ netw = "ip4"
                    THEN ipv4Payload(rb)
                    ELSE [err |-> "", b |-> rb]
           r == parseICMPMessage(strip.b)
       IN  IF strip.err # ""
           THEN /\ pc' = "Done"
                /\ outcome' = "Panic"
                /\ UNCHANGED <<rb, m, decodes>>
           ELSE /\ rb' = strip.b
                /\ m' = r
                /\ decodes' = decodes + 1
                /\ IF r.err = ErrPanic
                   THEN pc' = "Done" /\ outcome' = "Panic"
                   ELSE IF r.err # ""
                   THEN pc' = "Read" /\ UNCHANGED outcome
                   ELSE IF r.m.Type \in {icmpv4EchoRequest, icmpv6EchoRequest}
                   THEN pc' = "Read" /\ UNCHANGED outcome
                   ELSE pc' = "Check" /\ UNCHANGED outcome
    /\ UNCHANGED <<conn, netw, xid, xseq, wb, reads, delivered>>
    /\ UNCHANGED codecVars
    /\ UNCHANGED walkVars
    /\ UNCHANGED tcpVars

\* Mutant of Decode: a message whose key is not the sent one is skipped too.
DecodeSkipsOtherKeys ==
    /\ pc = "Decode"
    /\ LET strip == IF conn = "Conn" /\ netw = "ip4"
                    THEN ipv4Payload(rb)
                    ELSE [err |-> "", b |-> rb]
           r == parseICMPMessage(strip.b)
       IN  IF strip.err # ""
           THEN /\ pc' = "Done"
                /\ outcome' = "Panic"
                /\ UNCHANGED <<rb, m, decodes>>
           ELSE /\ rb' = strip.b
                /\ m' = r
                /\ decodes' = decodes + 1
                /\ IF r.err = ErrPanic
                   THEN pc' = "Done" /\ outcome' = "Panic"
                   ELSE IF r.err # ""
                   THEN pc' = "Done" /\ outcome' = "DecodeError"
                   ELSE IF r.m.Type \in {icmpv4EchoRequest, icmpv6EchoRequest}
                   THEN pc' = "Read" /\ UNCHANGED outcome
                   ELSE IF r.m.Body.ID # xid \/ r.m.Body.Seq # xseq
                   THEN pc' = "Read" /\ UNCHANGED outcome
                   ELSE pc' = "Check" /\ UNCHANGED outcome
    /\ UNCHANGED <<conn, netw, xid, xseq, wb, reads, delivered>>
    /\ UNCHANGED codecVars
    /\ UNCHANGED walkVars
    /\ UNCHANGED tcpVars

\* The rest of one loop iteration: rb = ipv4Payload(rb) on a Conn over ip4,
\* m, err = parseICMPMessage(rb), then the switch on m.Type.
Decode ==
    /\ pc = "Decode"
    /\ LET strip == IF conn = "Conn" /\ netw = "ip4"
                    THEN ipv4Payload(rb)
                    ELSE [err |-> "", b |-> rb]
           r == parseICMPMessage(strip.b)
       IN  IF strip.err # ""
           THEN /\ pc' = "Done"
                /\ outcome' = "Panic"
                /\ UNCHANGED <<rb, m, decodes>>
           ELSE /\ rb' = strip.b
                /\ m' = r
                /\ decodes' = decodes + 1
                /\ IF r.err = ErrPanic
                   THEN pc' = "Done" /\ outcome' = "Panic"
                   ELSE IF r.err # ""
                   THEN pc' = "Done" /\ outcome' = "DecodeError"
                   ELSE IF r.m.Type \in {icmpv4EchoRequest, icmpv6EchoRequest}
                   THEN pc' = "Read" /\ UNCHANGED outcome
                   ELSE pc' = "Check" /\ UNCHANGED outcome
    /\ UNCHANGED <<conn, netw, xid, xseq, wb, reads, delivered>>
    /\ UNCHANGED codecVars
    /\ UNCHANGED walkVars
    /\ UNCHANGED tcpVars

\* Mutant of CheckBody: a reply for another key sends the test back to reading.
CheckBodyReadsOn ==
    /\ pc = "Check"
    /\ IF m.m.Body.kind = "echo"
       THEN IF m.m.Body.ID # xid \/ m.m.Body.Seq # xseq
            THEN pc' = "Read" /\ UNCHANGED outcome
            ELSE pc' = "Done" /\ outcome' = "Matched"
       ELSE pc' = "Done" /\ outcome' = "NoEchoBody"
    /\ UNCHANGED <<conn, netw, xid, xseq, wb, rb, m, reads, decodes, delivered>>
    /\ UNCHANGED codecVars
    /\ UNCHANGED walkVars
    /\ UNCHANGED tcpVars

\* switch p := m.Body.(type) after the loop
CheckBody ==
    /\ pc = "Check"
    /\ outcome' = IF m.m.Body.kind = "echo"
                  THEN IF m.m.Body.ID # xid \/ m.m.Body.Seq # xseq
                       THEN "Mismatch"
                       ELSE "Matched"
                  ELSE "NoEchoBody"
    /\ pc' = "Done"
    /\ UNCHANGED <<conn, netw, xid, xseq, wb, rb, m, reads, decodes, delivered>>
    /\ UNCHANGED codecVars
    /\ UNCHANGED walkVars
    /\ UNCHANGED tcpVars

EchoNext ==
    \/ SendRequest
    \/ SendFails
    \/ ReadPacket
    \/ ReadFails
    \/ Decode
    \/ CheckBody

EchoSpec == EchoInit /\ [][EchoNext]_vars

(***************************************************************************)
(* gofmt: walkDir and its error handler goroutine.  v and done are          *)
(* unbuffered channels, so a send and its receive are one joint step.      *)
(* An entry is "nongo" (not a Go file), "ok" (processFileByName succeeds), *)
(* "fail" (processFileByName returns an error) or "direrr" (pathutil.Walk  *)
(* itself sends an error on v, its errors channel).                        *)
(***************************************************************************)
EntryKinds == {"nongo", "ok", "fail", "direrr"}

\* State after "go func() {...}()" in walkDir; exitCode is 0 or was set to 2 by
\* an earlier report in main.
WalkInit ==
    /\ CodecIdle
    /\ EchoIdle
    /\ TcpIdle
    /\ walker = "walk"
    /\ handler = "recv"
    /\ entries \in SeqsUpTo(EntryKinds, MaxFiles)
    /\ visited = 0
    /\ pending = Nil
    /\ received = Nil
    /\ closed = FALSE
    /\ sent = <<>>
    /\ reported = <<>>
    /\ exitCode \in {0, 2}

\* pathutil.Walk reaches the next entry; VisitFile tests isGoFile(d).
Visit ==
    /\ walker = "walk"
    /\ visited < Len(entries)
    /\ visited' = visited + 1
    /\ LET kind == entries[visited + 1]
       IN  IF kind = "nongo"
           THEN walker' = "walk" /\ pending' = Nil
           ELSE IF kind = "direrr"
           THEN walker' = "send" /\ pending' = visited + 1
           ELSE walker' = "sync" /\ pending' = Nil
    /\ UNCHANGED <<handler, entries, received, closed, sent, reported, exitCode>>
    /\ UNCHANGED codecVars
    /\ UNCHANGED echoVars
    /\ UNCHANGED tcpVars

\* v <- nil in VisitFile, received by "for err := range v".
SendNil ==
    /\ walker = "sync"
    /\ handler = "recv"
    /\ received' = Nil
    /\ handler' = "got"
    /\ walker' = "process"
    /\ UNCHANGED <<entries, visited, pending, closed, sent, reported, exitCode>>
    /\ UNCHANGED codecVars
    /\ UNCHANGED echoVars
    /\ UNCHANGED tcpVars

\* err := processFileByName(path); err != nil
ProcessFile ==
    /\ walker = "process"
    /\ IF entries[visited] = "fail"
       THEN walker' = "send" /\ pending' = visited
       ELSE walker' = "walk" /\ pending' = Nil
    /\ UNCHANGED <<handler, entries, visited, received, closed, sent, reported, exitCode>>
    /\ UNCHANGED codecVars
    /\ UNCHANGED echoVars
    /\ UNCHANGED tcpVars

\* v <- err (VisitFile, or pathutil.Walk on its errors channel), received by the range loop.
SendErr ==
    /\ walker = "send"
    /\ handler = "recv"
    /\ received' = pending
    /\ sent' = Append(sent, pending)
    /\ handler' = "got"
    /\ walker' = "walk"
    /\ pending' = Nil
    /\ UNCHANGED <<entries, visited, closed, reported, exitCode>>
    /\ UNCHANGED codecVars
    /\ UNCHANGED echoVars
    /\ UNCHANGED tcpVars

\* Loop body of the handler: if err != nil { report(err) }; report sets exitCode = 2.
Handle ==
    /\ handler = "got"
    /\ IF received # Nil
       THEN reported' = Append(reported, received) /\ exitCode' = 2
       ELSE UNCHANGED <<reported, exitCode>>
    /\ handler' = "recv"
    /\ UNCHANGED <<walker, entries, visited, pending, received, closed, sent>>
    /\ UNCHANGED codecVars
    /\ UNCHANGED echoVars
    /\ UNCHANGED tcpVars

\* Mutant of CloseV: walkDir returns after close(v) without receiving from done.
CloseVReturns ==
    /\ walker = "walk"
    /\ visited = Len(entries)
    /\ closed' = TRUE
    /\ walker' = "returned"
    /\ UNCHANGED <<handler, entries, visited, pending, received, sent, reported, exitCode>>
    /\ UNCHANGED codecVars
    /\ UNCHANGED echoVars
    /\ UNCHANGED tcpVars

\* pathutil.Walk returns; close(v)
CloseV ==
    /\ walker = "walk"
    /\ visited = Len(entries)
    /\ closed' = TRUE
    /\ walker' = "wait"
    /\ UNCHANGED <<handler, entries, visited, pending, received, sent, reported, exitCode>>
    /\ UNCHANGED codecVars
    /\ UNCHANGED echoVars
    /\ UNCHANGED tcpVars

\* The range loop ends on the closed channel.
RangeEnds ==
    /\ handler = "recv"
    /\ closed
    /\ handler' = "senddone"
    /\ UNCHANGED <<walker, entries, visited, pending, received, closed, sent, reported, exitCode>>
    /\ UNCHANGED codecVars
    /\ UNCHANGED echoVars
    /\ UNCHANGED tcpVars

\* done <- true in the handler, received by <-done in walkDir, which then returns.
Done ==
    /\ handler = "senddone"
    /\ walker = "wait"
    /\ handler' = "exited"
    /\ walker' = "returned"
    /\ UNCHANGED <<entries, visited, pending, received, closed, sent, reported, exitCode>>
    /\ UNCHANGED codecVars
    /\ UNCHANGED echoVars
    /\ UNCHANGED tcpVars

WalkNext ==
    \/ Visit
    \/ SendNil
    \/ ProcessFile
    \/ SendErr
    \/ Handle
    \/ CloseV
    \/ RangeEnds
    \/ Done

WalkSpec == WalkInit /\ [][WalkNext]_vars

(***************************************************************************)
(* The TCP echo server test: DoTest (with Connect inlined), Serve and Echo. *)
(* listening, done and echodone are unbuffered channels, so a send and its *)
(* receive are one joint step.  t.Fatalf ends the goroutine that calls it. *)
(* A Read returns between 1 byte and all the bytes that have arrived, up   *)
(* to the length of its buffer.                                            *)
(***************************************************************************)
\* b := io.StringBytes("hello, world\n")
Hello == <<104, 101, 108, 108, 111, 44, 32, 119, 111, 114, 108, 100, 10>>

\* var buf [1024]byte
EchoBufLen == 1024

\* var b1 [100]byte
ClientBufLen == 100

Smaller(a, b) == IF a < b THEN a ELSE b

\* State after "go Serve(t, network, listenaddr, listening, done)" in DoTest.
TcpInit ==
    /\ CodecIdle
    /\ EchoIdle
    /\ WalkIdle
    /\ tester = "waitlisten"
    /\ server = "listen"
    /\ echo = "none"
    /\ listener = "none"
    /\ tconn = "none"
    /\ clientClosed = FALSE
    /\ reset = FALSE
    /\ c2s = <<>>
    /\ s2c = <<>>
    /\ buf = <<>>
    /\ echoIn = <<>>
    /\ echoOut = <<>>
    /\ lastRead = "none"
    /\ accepted = 0
    /\ acceptFailed = FALSE

\* l, err := net.Listen(network, addr) with err == nil
ListenOk ==
    /\ server = "listen"
    /\ listener' = "open"
    /\ server' = "signal"
    /\ UNCHANGED <<tester, echo, tconn, clientClosed, reset, c2s, s2c, buf, echoIn,
                   echoOut, lastRead, accepted, acceptFailed>>
    /\ UNCHANGED codecVars
    /\ UNCHANGED echoVars
    /\ UNCHANGED walkVars

\* net.Listen fails: t.Fatalf
ListenFails ==
    /\ server = "listen"
    /\ server' = "fatal"
    /\ UNCHANGED <<tester, echo, listener, tconn, clientClosed, reset, c2s, s2c, buf,
                   echoIn, echoOut, lastRead, accepted, acceptFailed>>
    /\ UNCHANGED codecVars
    /\ UNCHANGED echoVars
    /\ UNCHANGED walkVars

\* listening <- 1 in Serve, received by <-listening in DoTest.
SignalListening ==
    /\ server = "signal"
    /\ tester = "waitlisten"
    /\ server' = "accept"
    /\ tester' = "dial"
    /\ UNCHANGED <<echo, listener, tconn, clientClosed, reset, c2s, s2c, buf, echoIn,
                   echoOut, lastRead, accepted, acceptFailed>>
    /\ UNCHANGED codecVars
    /\ UNCHANGED echoVars
    /\ UNCHANGED walkVars

\* fd, err := net.Dial(network, "", addr) with err == nil: the connection is
\* established with the listening socket before Accept returns it.
DialOk ==
    /\ tester = "dial"
    /\ listener = "open"
    /\ tconn' = "pending"
    /\ tester' = "write"
    /\ UNCHANGED <<server, echo, listener, clientClosed, reset, c2s, s2c, buf, echoIn,
                   echoOut, lastRead, accepted, acceptFailed>>
    /\ UNCHANGED codecVars
    /\ UNCHANGED echoVars
    /\ UNCHANGED walkVars

\* net.Dial fails: t.Fatalf
DialFails ==
    /\ tester = "dial"
    /\ tester' = "fatal"
    /\ UNCHANGED <<server, echo, listener, tconn, clientClosed, reset, c2s, s2c, buf,
                   echoIn, echoOut, lastRead, accepted, acceptFailed>>
    /\ UNCHANGED codecVars
    /\ UNCHANGED echoVars
    /\ UNCHANGED walkVars

\* n, errno := fd.Write(b); if n != len(b) { t.Fatalf }
ClientWrite ==
    /\ tester = "write"
    /\ \E n \in 0..Len(Hello) :
          /\ c2s' = c2s \o SubSeq(Hello, 1, n)
          /\ tester' = IF n # Len(Hello) THEN "fatal" ELSE "read"
    /\ UNCHANGED <<server, echo, listener, tconn, clientClosed, reset, s2c, buf, echoIn,
                   echoOut, lastRead, accepted, acceptFailed>>
    /\ UNCHANGED codecVars
    /\ UNCHANGED echoVars
    /\ UNCHANGED walkVars

\* n, errno = fd.Read(b1); if n != len(b) { t.Fatalf }.  The Read blocks until
\* bytes have arrived or the connection has failed (n = 0).
ClientRead ==
    /\ tester = "read"
    /\ \/ /\ s2c # <<>>
          /\ \E n \in 1..Smaller(Len(s2c), ClientBufLen) :
                /\ s2c' = SubSeq(s2c, n + 1, Len(s2c))
                /\ tester' = IF n # Len(Hello) THEN "fatal" ELSE "close"
       \/ /\ s2c = <<>>
          /\ reset
          /\ s2c' = s2c
          /\ tester' = "fatal"
    /\ UNCHANGED <<server, echo, listener, tconn, clientClosed, reset, c2s, buf, echoIn,
                   echoOut, lastRead, accepted, acceptFailed>>
    /\ UNCHANGED codecVars
    /\ UNCHANGED echoVars
    /\ UNCHANGED walkVars

\* fd.Close() at the end of Connect
ClientClose ==
    /\ tester = "close"
    /\ clientClosed' = TRUE
    /\ tester' = "waitdone"
    /\ UNCHANGED <<server, echo, listener, tconn, reset, c2s, s2c, buf, echoIn,
                   echoOut, lastRead, accepted, acceptFailed>>
    /\ UNCHANGED codecVars
    /\ UNCHANGED echoVars
    /\ UNCHANGED walkVars

\* fd, addr, err := l.Accept() with err == nil; go Echo(fd, echodone)
AcceptConn ==
    /\ server = "accept"
    /\ listener = "open"
    /\ tconn = "pending"
    /\ tconn' = "accepted"
    /\ accepted' = accepted + 1
    /\ echo' = "read"
    /\ server' = "waitecho"
    /\ UNCHANGED <<tester, listener, clientClosed, reset, c2s, s2c, buf, echoIn,
                   echoOut, lastRead, acceptFailed>>
    /\ UNCHANGED codecVars
    /\ UNCHANGED echoVars
    /\ UNCHANGED walkVars

\* l.Accept() returns an error (always once the listener is closed): break
AcceptFails ==
    /\ server = "accept"
    /\ acceptFailed' = TRUE
    /\ server' = "done"
    /\ UNCHANGED <<tester, echo, listener, tconn, clientClosed, reset, c2s, s2c, buf,
                   echoIn, echoOut, lastRead, accepted>>
    /\ UNCHANGED codecVars
    /\ UNCHANGED echoVars
    /\ UNCHANGED walkVars

\* n, err := fd.Read(buf) in Echo: bytes have arrived, or the client has closed
\* and everything it wrote has been read (n == 0).
EchoRead ==
    /\ echo = "read"
    /\ \/ /\ c2s # <<>>
          /\ \E n \in 1..Smaller(Len(c2s), EchoBufLen) :
                /\ buf' = SubSeq(c2s, 1, n)
                /\ c2s' = SubSeq(c2s, n + 1, Len(c2s))
          /\ echoIn' = echoIn \o buf'
          /\ lastRead' = "data"
          /\ echo' = "write"
       \/ /\ c2s = <<>>
          /\ clientClosed
          /\ buf' = <<>>
          /\ lastRead' = "zero"
          /\ echo' = "done"
          /\ UNCHANGED <<c2s, echoIn>>
    /\ UNCHANGED <<tester, server, listener, tconn, clientClosed, reset, s2c, echoOut,
                   accepted, acceptFailed>>
    /\ UNCHANGED codecVars
    /\ UNCHANGED echoVars
    /\ UNCHANGED walkVars

\* fd.Read(buf) in Echo returns an error: break
EchoReadFails ==
    /\ echo = "read"
    /\ reset' = TRUE
    /\ buf' = <<>>
    /\ lastRead' = "err"
    /\ echo' = "done"
    /\ UNCHANGED <<tester, server, listener, tconn, clientClosed, c2s, s2c, echoIn,
                   echoOut, accepted, acceptFailed>>
    /\ UNCHANGED codecVars
    /\ UNCHANGED echoVars
    /\ UNCHANGED walkVars

\* fd.Write(buf[0:n]) in Echo; its result is ignored.
EchoWrite ==
    /\ echo = "write"
    /\ s2c' = s2c \o buf
    /\ echoOut' = echoOut \o buf
    /\ echo' = "read"
    /\ UNCHANGED <<tester, server, listener, tconn, clientClosed, reset, c2s, buf,
                   echoIn, lastRead, accepted, acceptFailed>>
    /\ UNCHANGED codecVars
    /\ UNCHANGED echoVars
    /\ UNCHANGED walkVars

\* done <- 1 in Echo, received by <-echodone in Serve.
EchoDone ==
    /\ echo = "done"
    /\ server = "waitecho"
    /\ echo' = "exited"
    /\ server' = "close"
    /\ UNCHANGED <<tester, listener, tconn, clientClosed, reset, c2s, s2c, buf, echoIn,
                   echoOut, lastRead, accepted, acceptFailed>>
    /\ UNCHANGED codecVars
    /\ UNCHANGED echoVars
    /\ UNCHANGED walkVars

\* l.Close() in Serve, then the loop calls Accept again.
CloseListener ==
    /\ server = "close"
    /\ listener' = "closed"
    /\ server' = "accept"
    /\ UNCHANGED <<tester, echo, tconn, clientClosed, reset, c2s, s2c, buf, echoIn,
                   echoOut, lastRead, accepted, acceptFailed>>
    /\ UNCHANGED codecVars
    /\ UNCHANGED echoVars
    /\ UNCHANGED walkVars

\* Mutant of ServeDone: DoTest returns without receiving from done.
ServeDoneNotAwaited ==
    /\ tester = "waitdone"
    /\ tester' = "returned"
    /\ UNCHANGED <<server, echo, listener, tconn, clientClosed, reset, c2s, s2c, buf,
                   echoIn, echoOut, lastRead, accepted, acceptFailed>>
    /\ UNCHANGED codecVars
    /\ UNCHANGED echoVars
    /\ UNCHANGED walkVars

\* done <- 1 in Serve, received by <-done in DoTest, which then returns.
ServeDone ==
    /\ server = "done"
    /\ tester = "waitdone"
    /\ server' = "stopped"
    /\ tester' = "returned"
    /\ UNCHANGED <<echo, listener, tconn, clientClosed, reset, c2s, s2c, buf, echoIn,
                   echoOut, lastRead, accepted, acceptFailed>>
    /\ UNCHANGED codecVars
    /\ UNCHANGED echoVars
    /\ UNCHANGED walkVars

TcpNext ==
    \/ ListenOk
    \/ ListenFails
    \/ SignalListening
    \/ DialOk
    \/ DialFails
    \/ ClientWrite
    \/ ClientRead
    \/ ClientClose
    \/ AcceptConn
    \/ AcceptFails
    \/ EchoRead
    \/ EchoReadFails
    \/ EchoWrite
    \/ EchoDone
    \/ CloseListener
    \/ ServeDone

TcpSpec == TcpInit /\ [][TcpNext]_vars

\* A goroutine that can run does run, and bytes in flight arrive.
TcpFairSpec == TcpSpec /\ WF_vars(TcpNext)

(***************************************************************************)
(* Properties of the codec (checked under Spec).                           *)
(***************************************************************************)
Marshalled == cpc \in {"parse", "done"} /\ msg # NoMessage

RoundTripped == cpc = "done" /\ msg # NoMessage

ParsedRaw == cpc = "done" /\ msg = NoMessage

\* C1: for an IPv4-family type (8 or 0), a code in 0..255 and an Echo body with
\* identifier and sequence in 0..65535 and any payload, parsing the marshalled
\* bytes succeeds and gives back the type, code, identifier, sequence and payload.
C1_RoundTrip ==
    (/\ RoundTripped
     /\ msg.Type \in {icmpv4EchoRequest, icmpv4EchoReply}
     /\ msg.Code \in 0..255
     /\ msg.Body.kind = "echo"
     /\ msg.Body.ID \in 0..65535
     /\ msg.Body.Seq \in 0..65535)
        => /\ parsed.err = ""
           /\ parsed.m.Type = msg.Type
           /\ parsed.m.Code = msg.Code
           /\ parsed.m.Body.kind = "echo"
           /\ parsed.m.Body.ID = msg.Body.ID
           /\ parsed.m.Body.Seq = msg.Body.Seq
           /\ parsed.m.Body.Data = msg.Body.Data

C1_Witness ==
    /\ RoundTripped
    /\ msg.Type = icmpv4EchoRequest
    /\ msg.Body.kind = "echo"
    /\ msg.Body.ID = 4660
    /\ msg.Body.Data = <<>>
    /\ parsed.err = ""

\* C2: for every type other than 128 and 129, and for even and odd lengths, the
\* checksum bytes Marshal emits are the one's complement of the one's-complement
\* sum of the message taken with a zero checksum field, so that the sum over the
\* emitted message is 0xFFFF.
C2_ChecksumConsistent ==
    (Marshalled /\ msg.Type \notin {icmpv6EchoRequest, icmpv6EchoReply})
        => /\ wire[3] * 256 + wire[4]
                = 65535 - OnesComplementSum([wire EXCEPT ![3] = 0, ![4] = 0])
           /\ OnesComplementSum(wire) = 65535

C2_Witness ==
    /\ Marshalled
    /\ msg.Type = icmpv4EchoReply
    /\ Len(wire) = 9
    /\ wire[9] = 170
    /\ OnesComplementSum(wire) = 65535

VectorMessage(mm) ==
    /\ mm.Type = icmpv4EchoRequest
    /\ mm.Code = 0
    /\ mm.Body = Echo(4660, 1, <<>>)

\* C3 as stated: type=8, code=0, identifier=0x1234, sequence=1, empty payload
\* encodes to [08 00 EC CA 12 34 00 01].
C3_VectorAsStated ==
    (Marshalled /\ VectorMessage(msg)) => wire = <<8, 0, 236, 202, 18, 52, 0, 1>>

\* C3 as amended: the same message encodes to [08 00 E5 CA 12 34 00 01]
\* (0x0800 + 0x1234 + 0x0001 = 0x1A35, whose complement is 0xE5CA).
C3_Vector ==
    (Marshalled /\ VectorMessage(msg)) => wire = <<8, 0, 229, 202, 18, 52, 0, 1>>

C3_Witness == Marshalled /\ VectorMessage(msg) /\ Len(wire) = 8

\* C8: parseICMPMessage of 0, 1, 2 or 3 bytes fails with the too-short error and
\* returns no message; of 4 bytes or more it does not fail with that error.
C8_TooShort ==
    cpc = "done"
        => /\ Len(wire) < 4 => parsed = Result(ErrTooShort, NoMessage)
           /\ Len(wire) >= 4 => parsed.err # ErrTooShort

C8_Witness == ParsedRaw /\ Len(wire) = 3 /\ wire[1] = 8 /\ parsed.err = ErrTooShort

\* C9: an input of 5, 6 or 7 bytes whose type is 0, 8, 128 or 129 fails with the
\* too-short error and no index outside the input is read.
C9_TruncatedEchoTooShort ==
    (cpc = "done" /\ Len(wire) \in 5..7 /\ wire[1] \in EchoTypes)
        => parsed.err = ErrTooShort

\* C10: an input of 4 bytes or more whose type is not 0, 8, 128 or 129 parses to
\* a message with that type and code and no body, whatever follows the header;
\* [FF 00 00 00 AA BB] parses to type 255 with no body.
C10_Passthrough ==
    (cpc = "done" /\ Len(wire) >= 4 /\ wire[1] \notin EchoTypes)
        => /\ parsed.err = ""
           /\ parsed.m.Type = wire[1]
           /\ parsed.m.Code = wire[2]
           /\ parsed.m.Body = NilBody
           /\ (wire = <<255, 0, 0, 0, 170, 187>> => parsed.m.Type = 255)

C10_Witness ==
    /\ ParsedRaw
    /\ wire = <<255, 0, 0, 0, 170, 187>>
    /\ parsed.err = ""
    /\ parsed.m.Body = NilBody

\* The layout of a message with a zero checksum field: type, code, 0, 0, then for
\* an Echo body the identifier and the sequence big-endian and the payload.
LayoutZeroChecksum(mm) ==
    <<mm.Type % 256, mm.Code % 256, 0, 0>>
        \o (IF mm.Body.kind = "echo"
            THEN <<(mm.Body.ID \div 256) % 256, mm.Body.ID % 256,
                   (mm.Body.Seq \div 256) % 256, mm.Body.Seq % 256>> \o mm.Body.Data
            ELSE <<>>)

\* C11: for type 128 or 129 Marshal computes no checksum: bytes 2 and 3 stay as
\* constructed (zero), whatever the identifier, sequence and payload are, and
\* every other byte is the one the checksummed encoding has at that place.
C11_IPv6ChecksumOmitted ==
    (Marshalled /\ msg.Type \in {icmpv6EchoRequest, icmpv6EchoReply})
        => /\ wire[3] = 0
           /\ wire[4] = 0
           /\ wire = LayoutZeroChecksum(msg)

C11_Witness ==
    /\ Marshalled
    /\ msg.Type = icmpv6EchoRequest
    /\ msg.Body.kind = "echo"
    /\ msg.Body.ID = 4660
    /\ msg.Body.Data = <<170, 255>>
    /\ wire[3] = 0
    /\ wire[4] = 0

\* The checksum of a message as RFC 1071 computes it over the zero-checksum layout.
ComputedChecksum(mm) == 65535 - OnesComplementSum(LayoutZeroChecksum(mm))

WireChecksum == wire[3] * 256 + wire[4]

IPv4Family(mm) == mm.Type \in {icmpv4EchoRequest, icmpv4EchoReply}

IPv6Family(mm) == mm.Type \in {icmpv6EchoRequest, icmpv6EchoReply}

\* C12 as stated: Marshal starts from the checksum c the caller placed in the
\* message: an IPv4-family message carries c XOR the computed checksum, an
\* IPv6-family message carries c, and parsing the output gives back c.
C12_SeededAsStated ==
    Marshalled
        => /\ IPv4Family(msg) => WireChecksum = BitXor(msg.Checksum, ComputedChecksum(msg))
           /\ IPv6Family(msg) => WireChecksum = msg.Checksum
           /\ (cpc = "done" /\ IPv6Family(msg)) => parsed.m.Checksum = msg.Checksum

\* C12 as amended: Marshal does not read the message's Checksum field: the header
\* starts from zero, so whatever c is an IPv4-family message carries the computed
\* checksum and an IPv6-family message carries zero, and parsing the output gives
\* back those emitted bytes, not c.
C12_SeedIgnored ==
    Marshalled
        => /\ IPv4Family(msg) => WireChecksum = ComputedChecksum(msg)
           /\ IPv6Family(msg) => WireChecksum = 0
           /\ (cpc = "done" /\ (IPv4Family(msg) \/ IPv6Family(msg)) /\ parsed.err = "")
                => parsed.m.Checksum = WireChecksum

C12_Witness ==
    /\ RoundTripped
    /\ msg.Checksum = 48879
    /\ msg.Type = icmpv4EchoRequest
    /\ msg.Body.kind = "echo"
    /\ parsed.err = ""
    /\ parsed.m.Checksum # 48879

\* An input the parser can take apart: a bare header, a type without a body
\* format, or an Echo type with at least the 4 bytes of identifier and sequence.
StructurallyDecodable(b) ==
    /\ Len(b) >= 4
    /\ (Len(b) = 4 \/ b[1] \notin EchoTypes \/ Len(b) >= 8)

\* C16: parseICMPMessage does not validate the checksum: every structurally
\* decodable input parses whatever bytes 2 and 3 are, and the Checksum returned
\* is byte 2 * 256 + byte 3.
C16_ChecksumNotValidated ==
    (cpc = "done" /\ StructurallyDecodable(wire))
        => /\ parsed.err = ""
           /\ parsed.m.Checksum = wire[3] * 256 + wire[4]

C16_Witness ==
    /\ ParsedRaw
    /\ Len(wire) = 8
    /\ wire[1] = icmpv4EchoRequest
    /\ wire[3] = 170
    /\ wire[4] = 187
    /\ OnesComplementSum(wire) # 65535
    /\ parsed.err = ""
    /\ parsed.m.Checksum = 43707

C18_LengthBoundaries ==
    /\ (ParsedRaw /\ Len(wire) = 4)
          => (/\ parsed.err = ""
              /\ parsed.m.Type = wire[1]
              /\ parsed.m.Body = NilBody)
    /\ (ParsedRaw /\ Len(wire) >= 8 /\ wire[1] \in EchoTypes)
          => (/\ parsed.err = ""
              /\ parsed.m.Body.kind = "echo"
              /\ parsed.m.Body.ID = wire[5] * 256 + wire[6]
              /\ parsed.m.Body.Seq = wire[7] * 256 + wire[8]
              /\ Len(parsed.m.Body.Data) = Len(wire) - 8
              /\ \A i \in 1..(Len(wire) - 8) : parsed.m.Body.Data[i] = wire[8 + i])
    /\ (Marshalled /\ msg.Body.kind \in {"nil", "nilecho"}) => Len(wire) = 4
    /\ (Marshalled /\ msg.Body.kind = "echo") => Len(wire) = 8 + Len(msg.Body.Data)

C18_Witness ==
    /\ ParsedRaw
    /\ Len(wire) = 9
    /\ wire[1] = icmpv6EchoReply
    /\ wire[5] = 170
    /\ wire[9] = 187
    /\ parsed.m.Body.ID = 43520
    /\ parsed.m.Body.Data = <<187>>

C18_WitnessMarshal ==
    /\ Marshalled
    /\ msg.Body = NilEcho
    /\ Len(wire) = 4

(***************************************************************************)
(* Properties of the echo exchange (checked under EchoSpec).               *)
(***************************************************************************)
IsPacket(d) == d.kind \in PacketKinds

\* The last read delivered a packet and the loop has decoded it.
LastReadDecoded == reads >= 1 /\ decodes = reads /\ pc # "Decode"

EchoRequestTypes == {icmpv4EchoRequest, icmpv6EchoRequest}

\* The filter alone: a decoded Echo Request sends the loop back to read, and the
\* first decoded message of another type leaves the loop.
FilterOnDecodedType ==
    (LastReadDecoded /\ m.err = "")
        => /\ m.m.Type \in EchoRequestTypes => pc = "Read"
           /\ m.m.Type \notin EchoRequestTypes
                => /\ pc \in {"Check", "Done"}
                   /\ outcome \in {"none", "Matched", "Mismatch", "NoEchoBody"}

\* The transport yielded an Echo Request and then the Echo Reply with the
\* caller's key, and the loop is through with the second read.
RequestThenReply ==
    /\ Len(delivered) >= 2
    /\ delivered[1].kind = "req"
    /\ delivered[2].kind = "rep"
    /\ ~(Len(delivered) = 2 /\ pc = "Decode")

\* C4: every decoded Echo Request (type 8 or 128) is skipped and another read is
\* performed, the loop returns the first decoded message of another type, and
\* when the transport yields an Echo Request and then the Echo Reply with the
\* caller's key, the first is skipped and the second is returned.
C4_Filtering ==
    /\ FilterOnDecodedType
    /\ RequestThenReply
        => /\ reads = 2
           /\ decodes = 2
           /\ pc \in {"Check", "Done"}
           /\ m.err = ""
           /\ m.m.Type = ReplyType(netw)
           /\ m.m.Body.kind = "echo"
           /\ m.m.Body.ID = xid
           /\ m.m.Body.Seq = xseq

\* C5: a failed read ends the loop with that failure: the failed read is the last
\* one, it is not decoded, and when the first read fails with the deadline
\* exceeded exactly one read is performed and the outcome is Timeout.
C5_ReadFailureAborts ==
    /\ \A i \in 1..Len(delivered) :
          ~IsPacket(delivered[i])
              => /\ i = Len(delivered)
                 /\ pc = "Done"
                 /\ outcome = delivered[i].kind
                 /\ reads = i
                 /\ decodes <= i - 1
    /\ (Len(delivered) >= 1 /\ delivered[1].kind = "Timeout")
          => (reads = 1 /\ decodes = 0 /\ outcome = "Timeout" /\ pc = "Done")

C5_Witness ==
    /\ Len(delivered) = 3
    /\ delivered[1].kind = "req"
    /\ delivered[2].kind = "otherreq"
    /\ delivered[3].kind = "Timeout"
    /\ decodes = 2
    /\ outcome = "Timeout"

\* C6: when parseICMPMessage returns an error the loop ends in failure at once:
\* the packet is not skipped and no further read is performed.
C6_DecodeFailureFatal ==
    (decodes >= 1 /\ m.err = ErrTooShort)
        => /\ pc = "Done"
           /\ outcome = "DecodeError"
           /\ reads = decodes
           /\ Len(delivered) = reads

C6_Witness ==
    /\ decodes >= 1
    /\ m.err = ErrTooShort
    /\ outcome = "DecodeError"
    /\ reads < MaxReads

PlainHeaders == \A i \in 1..Len(delivered) : delivered[i].ihl = 5

\* k Echo Requests followed by the Echo Reply that echoes the sent body.
RequestsThenReply ==
    /\ Len(delivered) >= 1
    /\ delivered[Len(delivered)].kind = "rep"
    /\ \A i \in 1..(Len(delivered) - 1) : delivered[i].kind = "req"

\* C7: on a Conn over IPv4, when the transport delivers k >= 0 Echo Requests and
\* then the Echo Reply, each an IPv4 header plus ICMP message, every iteration
\* decodes the ICMP message of the packet just delivered and the exchange ends
\* with an Echo body whose ID is xid and whose Seq is xseq.
C7_EchoExchange ==
    (/\ conn = "Conn"
     /\ netw = "ip4"
     /\ PlainHeaders
     /\ Len(delivered) >= 1
     /\ pc # "Decode"
     /\ \A i \in 1..Len(delivered) : delivered[i].kind \in {"req", "rep"})
        => /\ decodes = reads
           /\ m = parseICMPMessage(ICMPOf(delivered[Len(delivered)], netw, xid, xseq))
           /\ RequestsThenReply
                => /\ m.m.Body.kind = "echo"
                   /\ m.m.Body.ID = xid
                   /\ m.m.Body.Seq = xseq
                   /\ pc = "Done" => outcome = "Matched"

\* C7, the outcome alone: the exchange ends matched for every k.
C7_EndsMatched ==
    (/\ conn = "Conn"
     /\ netw = "ip4"
     /\ PlainHeaders
     /\ RequestsThenReply
     /\ pc = "Done")
        => outcome = "Matched"

\* How a test body can end: matched, timed out, or failed (a transport error, a
\* failed write, a decode error, a reply that is not the expected Echo body, or
\* a run-time panic).
FailedOutcomes == {"Closed", "WriteError", "DecodeError", "Mismatch", "NoEchoBody", "Panic"}

TerminalOutcomes == {"Matched", "Timeout"} \cup FailedOutcomes

ExchangeSteps ==
    {<<"Idle", "Read">>, <<"Idle", "Done">>, <<"Read", "Decode">>, <<"Read", "Done">>,
     <<"Decode", "Read">>, <<"Decode", "Check">>, <<"Decode", "Done">>,
     <<"Check", "Done">>}

ExchangeShape ==
    /\ pc \in {"Idle", "Read", "Decode", "Check", "Done"}
    /\ pc = "Done" <=> outcome \in TerminalOutcomes
    /\ pc # "Done" <=> outcome = "none"
    /\ reads > 0 => (pc # "Idle" /\ wb # <<>>)
    /\ decodes <= reads
    /\ outcome = "WriteError" => (reads = 0 /\ decodes = 0)
    /\ outcome = "Matched" => (decodes >= 1 /\ m.err = "" /\ m.m.Body.kind = "echo")
    /\ outcome = "Timeout" => (reads >= 1 /\ delivered[Len(delivered)].kind = "Timeout")

ExchangeStep ==
    /\ pc' # pc => <<pc, pc'>> \in ExchangeSteps
    /\ reads' # reads => (pc = "Read" /\ reads' = reads + 1)
    /\ decodes' # decodes => (pc = "Decode" /\ decodes' = decodes + 1)
    /\ pc = "Done" => UNCHANGED vars

\* C13: an exchange goes Idle -> Sent -> (decode <-> read) -> terminal: no read
\* before the request is written, a failed write ends it without a read, it ends
\* in exactly one of Matched, Timeout or a failure, and once it has ended there is
\* no further read, decode or change of state.
C13_SingleOutcome == [](ExchangeShape) /\ [][ExchangeStep]_vars

C13_Witness ==
    /\ pc = "Done"
    /\ outcome = "Matched"
    /\ reads = 3
    /\ decodes = 3

\* The medium delivered only Echo Request packets (behind a plain 20-byte IPv4
\* header on a Conn over ip4) and the only read failure is the deadline's.
OnlyEchoRequests ==
    /\ Len(delivered) >= 1
    /\ \A i \in 1..Len(delivered) :
          /\ delivered[i].kind \in {"req", "otherreq", "Timeout"}
          /\ delivered[i].ihl \in {0, 5}

\* C14: when the medium delivers only Echo Request packets the loop keeps
\* skipping and reading, never reports a match, and ends with Timeout when the
\* deadline fires.
C14_OnlyRequestsEndInTimeout ==
    OnlyEchoRequests
        => /\ outcome # "Matched"
           /\ pc \in {"Read", "Decode", "Done"}
           /\ pc = "Done" => outcome = "Timeout"

\* What the caller's check on the returned message gives.
CallerVerdict ==
    IF m.m.Body.kind # "echo" THEN "NoEchoBody"
    ELSE IF m.m.Body.ID = xid /\ m.m.Body.Seq = xseq THEN "Matched"
    ELSE "Mismatch"

\* C15: the loop compares no key: it returns the first decoded message that is
\* not an Echo Request whatever its identifier and sequence are, skips a packet
\* only for its type, and the key is compared afterwards on the returned body:
\* the exchange is accepted only for an Echo body with the sent ID and Seq.
C15_NoKeyComparisonInLoop ==
    /\ (LastReadDecoded /\ m.err = "" /\ m.m.Type \notin EchoRequestTypes)
          => /\ pc \in {"Check", "Done"}
             /\ pc = "Done" => outcome = CallerVerdict
    /\ (pc = "Read" /\ decodes >= 1)
          => (m.err = "" /\ m.m.Type \in EchoRequestTypes)
    /\ outcome = "Matched"
          => (m.m.Body.kind = "echo" /\ m.m.Body.ID = xid /\ m.m.Body.Seq = xseq)
    /\ outcome \in {"Mismatch", "NoEchoBody"} => pc = "Done"

C15_Witness ==
    /\ Len(delivered) = 2
    /\ delivered[1].kind = "req"
    /\ delivered[2].kind = "otherrep"
    /\ m.err = ""
    /\ m.m.Body.kind = "echo"
    /\ m.m.Body.ID = OtherID(xid)
    /\ outcome = "Mismatch"

\* C19: ipv4Payload is bounds-safe: on every buffer the loop hands it, it returns
\* a suffix of the buffer without indexing past its end; a buffer shorter than 20
\* bytes comes back unchanged, and otherwise the header length (b[0] & 0x0f) * 4
\* does not exceed the buffer's length.
C19_IPv4PayloadBoundsSafe ==
    (pc = "Decode" /\ HasIPHeader(conn, netw))
        => LET r == ipv4Payload(rb)
           IN  /\ r.err = ""
               /\ Len(rb) < 20 => r.b = rb
               /\ Len(rb) >= 20 => BitAnd(rb[1], 15) * 4 <= Len(rb)
               /\ \E k \in 0..Len(rb) : r.b = SliceFrom(rb, k)

(***************************************************************************)
(* Properties of gofmt's walkDir (checked under WalkSpec).                 *)
(***************************************************************************)
FailedEntries == {i \in 1..Len(entries) : entries[i] = "fail"}

Reported == {reported[i] : i \in 1..Len(reported)}

\* C20: whatever files are visited, walkDir does not deadlock and returns only
\* after the handler has reported every error sent on v; when it returns exitCode
\* is 2 if a visited Go file failed to process; report is never called for the
\* nil values; and exitCode, once 2, is never set back to 0.
C20_WalkDir ==
    /\ [](/\ walker # "returned" => ENABLED WalkNext
          /\ walker = "returned"
                => (/\ handler = "exited"
                    /\ visited = Len(entries)
                    /\ reported = sent
                    /\ FailedEntries \subseteq Reported
                    /\ FailedEntries # {} => exitCode = 2)
          /\ \A i \in 1..Len(reported) : reported[i] # Nil)
    /\ [][exitCode = 2 => exitCode' = 2]_vars

C20_Witness ==
    /\ walker = "returned"
    /\ entries = <<"ok", "fail", "direrr">>
    /\ reported = <<2, 3>>
    /\ exitCode = 2

(***************************************************************************)
(* Properties of the TCP echo server test (checked under TcpFairSpec).     *)
(***************************************************************************)
\* C21: the client connects only after Serve has signalled listening; Serve
\* accepts one connection, runs Echo on it and waits for Echo to finish before it
\* closes the listener; Echo writes back every chunk it read and stops on a read
\* error or a zero-length read; Serve signals done only after the accept loop has
\* ended; DoTest returns only after the server has stopped, and once the client
\* has closed its connection DoTest does return.
C21_EchoServerHandshake ==
    /\ [](/\ tester \notin {"idle", "waitlisten"}
                => (listener # "none" /\ server \notin {"listen", "signal", "fatal"})
          /\ tconn # "none" => tester \notin {"idle", "waitlisten", "dial"}
          /\ accepted <= 1
          /\ (echo # "none") = (accepted = 1)
          /\ listener = "closed" => (accepted = 1 /\ echo = "exited")
          /\ echo \in {"read", "done", "exited"} => echoOut = echoIn
          /\ echo = "write" => (buf # <<>> /\ echoIn = echoOut \o buf)
          /\ echo \in {"done", "exited"} => lastRead \in {"zero", "err"}
          /\ server \in {"done", "stopped"} => acceptFailed
          /\ tester = "returned"
                => (server = "stopped" /\ accepted = 1 /\ echo = "exited"
                    /\ listener = "closed" /\ echoOut = Hello))
    /\ clientClosed ~> (tester = "returned")

C21_Witness ==
    /\ tester = "returned"
    /\ server = "stopped"
    /\ clientClosed
    /\ lastRead = "zero"
    /\ echoOut = Hello

====
